---- MODULE Spec2Model ----
(***************************************************************************)
(* Model of the LangGraph / Google GenAI conversation workflow:            *)
(*   src/src/workflows/agent_workflow.py    (AgentWorkFlow)                *)
(*   src/src/services/conversation_service.py (ConversationService)        *)
(* One request is followed from ConversationService.converse through       *)
(* AgentWorkFlow.stream and the compiled graph to the events the consumer  *)
(* of the response receives (Spec, FairSpec); two requests that share the  *)
(* AgentWorkFlow are followed in ConcSpec.  Text is a sequence of          *)
(* one-character strings.                                                  *)
(***************************************************************************)
EXTENDS Integers, Sequences, FiniteSets, TLC

\* most chunks the streaming model call yields before it ends or fails
MaxChunks == 2

(***************************************************************************)
(* Text helpers (str.upper, str.lower, the `in` operator, +=)              *)
(***************************************************************************)
UpperLetters == <<"A","B","C","D","E","F","G","H","I","J","K","L","M","N","O","P","Q","R","S","T","U","V","W","X","Y","Z">>

LowerLetters == <<"a","b","c","d","e","f","g","h","i","j","k","l","m","n","o","p","q","r","s","t","u","v","w","x","y","z">>

UpperChar(c) ==
    IF \E i \in 1..26 : LowerLetters[i] = c
    THEN UpperLetters[CHOOSE i \in 1..26 : LowerLetters[i] = c]
    ELSE c

LowerChar(c) ==
    IF \E i \in 1..26 : UpperLetters[i] = c
    THEN LowerLetters[CHOOSE i \in 1..26 : UpperLetters[i] = c]
    ELSE c

\* str.upper()
Upper(s) == [i \in 1..Len(s) |-> UpperChar(s[i])]

\* str.lower()
Lower(s) == [i \in 1..Len(s) |-> LowerChar(s[i])]

\* Python's `sub in s` on strings
Contains(sub, s) ==
    \E i \in 1..(Len(s) - Len(sub) + 1) : SubSeq(s, i, i + Len(sub) - 1) = sub

\* Python truthiness of an optional string: None and "" are both falsy
Truthy(s) == s # <<>>

\* dict.get(key) used as a condition: the key is present and its value truthy
GetTruthy(d, key) == key \in DOMAIN d /\ Truthy(d[key])

\* concatenation of a sequence of texts, in order
RECURSIVE Concat(_)
Concat(ss) == IF ss = <<>> THEN <<>> ELSE Head(ss) \o Concat(Tail(ss))

\* the elements of a sequence satisfying a test, in order
RECURSIVE NonEmptyTexts(_)
NonEmptyTexts(ss) ==
    IF ss = <<>> THEN <<>>
    ELSE IF Truthy(Head(ss)) THEN <<Head(ss)>> \o NonEmptyTexts(Tail(ss))
    ELSE NonEmptyTexts(Tail(ss))

\* number of occurrences of x in the sequence s
Count(s, x) == Cardinality({i \in 1..Len(s) : s[i] = x})

(***************************************************************************)
(* Literals of the program                                                 *)
(***************************************************************************)
\* cannot_answer_node: the fixed refusal text
FallbackText == <<"I","'","m"," ","s","o","r","r","y",","," ","b","u","t"," ","I"," ","c","a","n","n","o","t"," ","p","r","o","v","i","d","e"," ","a","n"," ","a","n","s","w","e","r"," ","b","a","s","e","d"," ","o","n"," ","t","h","e"," ","g","i","v","e","n"," ","i","n","p","u","t",".">>

\* retrieve_rag_node: keys of mock_knowledge_base
mock_knowledge_base == { <<"l","a","n","g","g","r","a","p","h">>,
                         <<"p","y","t","h","o","n">>,
                         <<"g","e","m","i","n","i">> }

\* check_context_node: the token looked for in the upper-cased response
YES == <<"Y","E","S">>

\* converse: f"data: {chunk}\n\n"
SSE(chunk) == <<"d","a","t","a",":"," ">> \o chunk \o <<"\n","\n">>

\* converse: the literal yielded by the exception handler
ErrorEvent == <<"d","a","t","a",":"," ","[","E","R","R","O","R","]","\n","\n">>

(***************************************************************************)
(* Inputs                                                                  *)
(***************************************************************************)
\* request messages: "What is LangGraph?", "PYTHON", "asdkjashdkjh nonsense", ""
Prompts == { <<"W","h","a","t"," ","i","s"," ","L","a","n","g","G","r","a","p","h","?">>,
             <<"P","Y","T","H","O","N">>,
             <<"a","s","d","k","j","a","s","h","d","k","j","h"," ","n","o","n","s","e","n","s","e">>,
             <<>> }

\* response.text of the single-shot call: "YES", "Yes.", "NO"
ResponseTexts == { <<"Y","E","S">>, <<"Y","e","s",".">>, <<"N","O">> }

\* usage_metadata of a response or chunk: <<prompt_token_count, candidates_token_count>>
UsageSamples == { <<5, 2>>, <<0, 1>> }

\* chunk.text of a streamed chunk; <<>> stands for None or ""
ChunkTexts == { <<>>, <<"H","e","l">>, <<"l","o">> }

\* chunk.usage_metadata of a streamed chunk; <<>> stands for None
ChunkUsages == UsageSamples \cup { <<>> }

StreamChunks == [text : ChunkTexts, usage_metadata : ChunkUsages]

(***************************************************************************)
(* The graph built by __build_graph                                        *)
(***************************************************************************)
END == "__end__"

\* add_node
Nodes == {"check_context", "retrieve_rag", "generate_answer", "cannot_answer"}

\* set_entry_point
EntryPoint == "check_context"

\* variant: both labels of check_context lead to retrieve_rag
CheckContextEdgesNoFallback == [has_context |-> "retrieve_rag", no_context |-> "retrieve_rag"]

\* add_conditional_edges("check_context", ...)
CheckContextEdges == [has_context |-> "retrieve_rag", no_context |-> "cannot_answer"]

\* variant: both labels of retrieve_rag lead to generate_answer
RetrieveRagEdgesNoFallback == [has_documents |-> "generate_answer", no_documents |-> "generate_answer"]

\* add_conditional_edges("retrieve_rag", ...)
RetrieveRagEdges == [has_documents |-> "generate_answer", no_documents |-> "cannot_answer"]

\* variant: a label that the edge map does not declare
check_context_condition_typo(st) == IF st["has_context"] THEN "has_context" ELSE "no_ctx"

\* check_context_condition
check_context_condition(st) == IF st["has_context"] THEN "has_context" ELSE "no_context"

\* retrieve_rag_condition
retrieve_rag_condition(st) == IF st["has_documents"] THEN "has_documents" ELSE "no_documents"

\* the node a conditional edge leads to; a label without a mapping is a routing failure
Branch(edges, label) == IF label \in DOMAIN edges THEN edges[label] ELSE "routing_error"

\* variant: generate_answer has an edge to cannot_answer instead of END
NextNodeFallThrough(node, st) ==
    CASE node = "check_context"   -> Branch(CheckContextEdges, check_context_condition(st))
      [] node = "retrieve_rag"    -> Branch(RetrieveRagEdges, retrieve_rag_condition(st))
      [] node = "generate_answer" -> "cannot_answer"
      [] OTHER                    -> END

\* where the scheduler goes after `node` has run and its update is merged into st
NextNode(node, st) ==
    CASE node = "check_context"   -> Branch(CheckContextEdges, check_context_condition(st))
      [] node = "retrieve_rag"    -> Branch(RetrieveRagEdges, retrieve_rag_condition(st))
      [] node = "generate_answer" -> END
      [] OTHER                    -> END

\* the scheduler merges a node's partial update into the state (the update wins)
Merge(st, update) == update @@ st

(***************************************************************************)
(* Node handlers (the pure part)                                           *)
(***************************************************************************)
\* check_context_node: the returned update
CheckContextUpdate(text) == [has_context |-> Contains(YES, Upper(text))]

\* variant: the prompt is matched without lower-casing it
RetrieveRagUpdateCaseSensitive(st) ==
    LET query == st["prompt"]
        documents == {k \in mock_knowledge_base : Contains(k, query)}
    IN  [has_documents |-> documents # {}]

\* variant: the node returns the whole state with has_documents added
RetrieveRagUpdateWholeState(st) ==
    LET query == Lower(st["prompt"])
        documents == {k \in mock_knowledge_base : Contains(k, query)}
    IN  [has_documents |-> documents # {}] @@ st

\* retrieve_rag_node: the returned update
RetrieveRagUpdate(st) ==
    LET query == Lower(st["prompt"])
        documents == {k \in mock_knowledge_base : Contains(k, query)}
    IN  [has_documents |-> documents # {}]

\* variant: the fallback also resets has_documents
CannotAnswerUpdateResetsFlags == [answer |-> FallbackText, has_documents |-> FALSE]

\* cannot_answer_node: the returned update
CannotAnswerUpdate == [answer |-> FallbackText]

\* __usage_metadata: the UsageMetadata attached to the run
UsageReport(input, output) ==
    [input_tokens |-> input, output_tokens |-> output, total_tokens |-> input + output]

\* __usage_metadata has no exception handler: a failure of get_current_run_tree
\* or of run.add_metadata leaves the method as an exception
UsageRaises(sink, active) ==
    \/ sink = "lookup_raises"
    \/ active /\ sink = "add_metadata_raises"

\* variant: response_text = chunk.text
AccumulateOverwrite(acc, text) == text

\* generate_answer_node: response_text += chunk.text
Accumulate(acc, text) == acc \o text

\* variant: the writer is handed the accumulated text
WriterPayloadAccumulated(chunk, acc) == [answer |-> acc \o chunk.text]

\* generate_answer_node: the dict handed to the stream writer
WriterPayload(chunk, acc) == [answer |-> chunk.text]

\* variant: the counts of the chunks are added up
TokensAfterSummed(chunk, tokens) ==
    IF chunk.usage_metadata # <<>>
    THEN <<tokens[1] + chunk.usage_metadata[1], tokens[2] + chunk.usage_metadata[2]>>
    ELSE tokens

\* generate_answer_node: input_tokens, output_tokens after looking at the chunk
TokensAfter(chunk, tokens) ==
    IF chunk.usage_metadata # <<>> THEN chunk.usage_metadata ELSE tokens

(***************************************************************************)
(* stream and converse (the pure part)                                     *)
(***************************************************************************)
\* variant: the test is `"answer" in chunk`
StreamYieldsAnyAnswer(ev) ==
    /\ ev.mode \in {"custom", "values"}
    /\ "answer" \in DOMAIN ev.chunk

\* stream: stream_mode in ["custom", "values"] and chunk.get("answer")
StreamYields(ev) ==
    /\ ev.mode \in {"custom", "values"}
    /\ GetTruthy(ev.chunk, "answer")

\* variant: a handler that catches BaseException
CaughtBaseException(exc) == TRUE

\* variant: a handler for one exception class only
CaughtValueErrorOnly(exc) == exc = "ValueError"

\* converse: `except Exception` catches what derives from Exception;
\* GeneratorExit and asyncio.CancelledError derive from BaseException only
Caught(exc) == exc \notin {"GeneratorExit", "CancelledError"}

\* what the consumer receives for a list of scheduler events
RECURSIVE Converse(_)
Converse(evs) ==
    IF evs = <<>> THEN <<>>
    ELSE IF StreamYields(Head(evs))
         THEN <<SSE(Head(evs).chunk["answer"])>> \o Converse(Tail(evs))
         ELSE Converse(Tail(evs))

(***************************************************************************)
(* State                                                                   *)
(***************************************************************************)
VARIABLES
    state,          \* GraphState of the request: a dict, keys absent until written
    pc,             \* scheduler position: "start", a node, END, NoEdge, "failed", "cancelled"
    gen,            \* generate_answer_node: "idle", "streaming", "returned"
    response_text,  \* generate_answer_node local
    tokens,         \* generate_answer_node locals <<input_tokens, output_tokens>>
    chunks,         \* chunks pulled from the model stream so far
    invoked,        \* node handlers invoked, in order
    model_calls,    \* model calls issued, in order: "single" or "stream"
    run_active,     \* get_current_run_tree() returns a run
    reports,        \* usage_metadata attached to the run by add_metadata
    sink_failed,    \* a failure occurred while recording usage
    error,          \* the exception the graph run raised, "" if none
    queue,          \* events the scheduler produced that stream has not read yet
    out,            \* events the consumer of converse has received
    conv,           \* converse: "running", "finished", "errored", "closed", "raised"
    runtime_error,  \* converse yielded while being closed
    writes,         \* updates merged into the state, in order: the node and its fields
    req,            \* concurrent requests: per request its state, positions, events
    acc             \* concurrent requests: response_text of each invocation frame

vars == <<state, pc, gen, response_text, tokens, chunks, invoked, model_calls,
          run_active, reports, sink_failed, error, queue, out, conv, runtime_error,
          writes, req, acc>>

\* the variables of the requests that share one AgentWorkFlow
cvars == <<req, acc>>

\* the variables of the request followed alone
svars == <<state, pc, gen, response_text, tokens, chunks, invoked, model_calls,
           run_active, reports, sink_failed, error, queue, out, conv, runtime_error,
           writes>>

\* a node with no outgoing edge ends the run
NoEdge == "no_edge"

SinkOutcomes == {"ok", "lookup_raises", "add_metadata_raises"}

Init ==
    /\ state \in {[prompt |-> p] : p \in Prompts}
    /\ pc = "start"
    /\ gen = "idle"
    /\ response_text = <<>>
    /\ tokens = <<0, 0>>
    /\ chunks = <<>>
    /\ invoked = <<>>
    /\ model_calls = <<>>
    /\ run_active \in BOOLEAN
    /\ reports = <<>>
    /\ sink_failed = FALSE
    /\ error = ""
    /\ queue = <<>>
    /\ out = <<>>
    /\ conv = "running"
    /\ runtime_error = FALSE
    /\ writes = <<>>
    /\ req = <<>>
    /\ acc = <<>>

(***************************************************************************)
(* Events the scheduler puts on the stream                                 *)
(***************************************************************************)
Event(mode, chunk) == [mode |-> mode, chunk |-> chunk]

\* a task of the step starts
TaskStarted(node) == <<Event("tasks", [name |-> node])>>

\* a node returned `update`, merged into `st`
NodeReturned(node, update, st) ==
    << Event("tasks", [name |-> node, result |-> update]),
       Event("updates", (node :> update)),
       Event("values", st) >>

\* a node raised
NodeRaised(node, exc) == <<Event("tasks", [name |-> node, error |-> exc])>>

\* the update of `node` is merged into the state
Written(node, update) == Append(writes, [node |-> node, fields |-> DOMAIN update])

\* destination after `node`: a routing failure fails the run
Goto(node, st) ==
    LET next == IF node = "cannot_answer" THEN NoEdge ELSE NextNode(node, st)
    IN  /\ pc' = IF next = "routing_error" THEN "failed" ELSE next
        /\ error' = IF next = "routing_error" THEN "RoutingError" ELSE error

\* a handler that was started goes on running while astream is suspended or
\* abandoned: the node is a task of its own
Scheduling == conv \in {"running", "closed"}

\* a step of the graph is begun in the body of astream, which runs only while
\* stream and converse are iterated
Stepping == conv = "running"

(***************************************************************************)
(* Actions                                                                 *)
(***************************************************************************)
\* astream(input={"prompt": prompt}): the input state is emitted, the entry node is scheduled
Start ==
    /\ pc = "start"
    /\ Stepping
    /\ queue' = Append(queue, Event("values", state))
    /\ pc' = EntryPoint
    /\ UNCHANGED <<state, gen, response_text, tokens, chunks, invoked, model_calls,
                   run_active, reports, sink_failed, error, out, conv, runtime_error>>
    /\ UNCHANGED writes
    /\ UNCHANGED cvars

\* check_context_node, the single-shot call raises
CheckContextFails ==
    /\ pc = "check_context"
    /\ Stepping
    /\ invoked' = Append(invoked, "check_context")
    /\ model_calls' = Append(model_calls, "single")
    /\ pc' = "failed"
    /\ error' = "ModelError"
    /\ queue' = queue \o TaskStarted("check_context") \o NodeRaised("check_context", "ModelError")
    /\ UNCHANGED <<state, gen, response_text, tokens, chunks, run_active, reports,
                   sink_failed, out, conv, runtime_error>>
    /\ UNCHANGED writes
    /\ UNCHANGED cvars

\* check_context_node, the single-shot call returns
CheckContext ==
    /\ pc = "check_context"
    /\ Stepping
    /\ invoked' = Append(invoked, "check_context")
    /\ model_calls' = Append(model_calls, "single")
    /\ \E text \in ResponseTexts, usage \in UsageSamples, sink \in SinkOutcomes :
         IF UsageRaises(sink, run_active)
         THEN /\ sink_failed' = TRUE
              /\ pc' = "failed"
              /\ error' = "SinkError"
              /\ queue' = queue \o TaskStarted("check_context")
                                \o NodeRaised("check_context", "SinkError")
              /\ UNCHANGED <<state, reports, writes>>
         ELSE /\ reports' = IF run_active
                            THEN Append(reports, UsageReport(usage[1], usage[2]))
                            ELSE reports
              /\ state' = Merge(state, CheckContextUpdate(text))
              /\ writes' = Written("check_context", CheckContextUpdate(text))
              /\ Goto("check_context", state')
              /\ queue' = queue \o TaskStarted("check_context")
                                \o NodeReturned("check_context", CheckContextUpdate(text), state')
              /\ UNCHANGED sink_failed
    /\ UNCHANGED <<gen, response_text, tokens, chunks, run_active, out, conv, runtime_error>>
    /\ UNCHANGED cvars

\* retrieve_rag_node
RetrieveRag ==
    /\ pc = "retrieve_rag"
    /\ Stepping
    /\ invoked' = Append(invoked, "retrieve_rag")
    /\ state' = Merge(state, RetrieveRagUpdate(state))
    /\ writes' = Written("retrieve_rag", RetrieveRagUpdate(state))
    /\ Goto("retrieve_rag", state')
    /\ queue' = queue \o TaskStarted("retrieve_rag")
                      \o NodeReturned("retrieve_rag", RetrieveRagUpdate(state), state')
    /\ UNCHANGED <<gen, response_text, tokens, chunks, model_calls, run_active, reports,
                   sink_failed, out, conv, runtime_error>>
    /\ UNCHANGED cvars

\* cannot_answer_node
CannotAnswer ==
    /\ pc = "cannot_answer"
    /\ Stepping
    /\ invoked' = Append(invoked, "cannot_answer")
    /\ state' = Merge(state, CannotAnswerUpdate)
    /\ writes' = Written("cannot_answer", CannotAnswerUpdate)
    /\ Goto("cannot_answer", state')
    /\ queue' = queue \o TaskStarted("cannot_answer")
                      \o NodeReturned("cannot_answer", CannotAnswerUpdate, state')
    /\ UNCHANGED <<gen, response_text, tokens, chunks, model_calls, run_active, reports,
                   sink_failed, out, conv, runtime_error>>
    /\ UNCHANGED cvars

\* generate_answer_node up to the first chunk: get_stream_writer, the locals,
\* and the call of generate_content_stream, which returns the stream or raises
GenerateStart ==
    /\ pc = "generate_answer"
    /\ gen = "idle"
    /\ Stepping
    /\ invoked' = Append(invoked, "generate_answer")
    /\ model_calls' = Append(model_calls, "stream")
    /\ response_text' = <<>>
    /\ tokens' = <<0, 0>>
    /\ \/ /\ gen' = "streaming"
          /\ queue' = queue \o TaskStarted("generate_answer")
          /\ UNCHANGED <<pc, error>>
       \/ /\ pc' = "failed"
          /\ error' = "ModelError"
          /\ queue' = queue \o TaskStarted("generate_answer")
                            \o NodeRaised("generate_answer", "ModelError")
          /\ UNCHANGED gen
    /\ UNCHANGED <<state, chunks, run_active, reports, sink_failed, out, conv, runtime_error>>
    /\ UNCHANGED writes
    /\ UNCHANGED cvars

\* generate_answer_node, one iteration of the async for
GenerateChunk ==
    /\ pc = "generate_answer"
    /\ gen = "streaming"
    /\ Scheduling
    /\ Len(chunks) < MaxChunks
    /\ \E chunk \in StreamChunks :
         /\ chunks' = Append(chunks, chunk)
         /\ tokens' = TokensAfter(chunk, tokens)
         /\ IF Truthy(chunk.text)
            THEN /\ response_text' = Accumulate(response_text, chunk.text)
                 /\ queue' = Append(queue, Event("custom", WriterPayload(chunk, response_text)))
            ELSE UNCHANGED <<response_text, queue>>
    /\ UNCHANGED <<state, pc, gen, invoked, model_calls, run_active, reports, sink_failed,
                   error, out, conv, runtime_error>>
    /\ UNCHANGED writes
    /\ UNCHANGED cvars

\* generate_answer_node, the model stream raises while the node waits for a chunk
GenerateFails ==
    /\ pc = "generate_answer"
    /\ gen = "streaming"
    /\ Scheduling
    /\ pc' = "failed"
    /\ error' = "ModelError"
    /\ queue' = queue \o NodeRaised("generate_answer", "ModelError")
    /\ UNCHANGED <<state, gen, response_text, tokens, chunks, invoked, model_calls,
                   run_active, reports, sink_failed, out, conv, runtime_error>>
    /\ UNCHANGED writes
    /\ UNCHANGED cvars

\* generate_answer_node, the model stream is exhausted: usage is recorded and
\* the answer returned
GenerateReturn ==
    /\ pc = "generate_answer"
    /\ gen = "streaming"
    /\ Scheduling
    /\ \E sink \in SinkOutcomes :
         IF UsageRaises(sink, run_active)
         THEN /\ sink_failed' = TRUE
              /\ pc' = "failed"
              /\ error' = "SinkError"
              /\ queue' = queue \o NodeRaised("generate_answer", "SinkError")
              /\ UNCHANGED <<state, reports, gen, writes>>
         ELSE /\ reports' = IF run_active
                            THEN Append(reports, UsageReport(tokens[1], tokens[2]))
                            ELSE reports
              /\ state' = Merge(state, [answer |-> response_text])
              /\ writes' = Written("generate_answer", [answer |-> response_text])
              /\ Goto("generate_answer", state')
              /\ gen' = "returned"
              /\ queue' = queue \o NodeReturned("generate_answer",
                                                [answer |-> response_text], state')
              /\ UNCHANGED sink_failed
    /\ UNCHANGED <<response_text, tokens, chunks, invoked, model_calls, run_active,
                   out, conv, runtime_error>>
    /\ UNCHANGED cvars

\* stream reads the next scheduler event, converse frames what stream yields
\* and the consumer receives it
Deliver ==
    /\ conv = "running"
    /\ queue # <<>>
    /\ queue' = Tail(queue)
    /\ out' = out \o Converse(<<Head(queue)>>)
    /\ UNCHANGED <<state, pc, gen, response_text, tokens, chunks, invoked, model_calls,
                   run_active, reports, sink_failed, error, conv, runtime_error>>
    /\ UNCHANGED writes
    /\ UNCHANGED cvars

\* the graph run is over and its events are read: stream and converse return
Finish ==
    /\ conv = "running"
    /\ queue = <<>>
    /\ pc \in {END, NoEdge}
    /\ conv' = "finished"
    /\ UNCHANGED <<state, pc, gen, response_text, tokens, chunks, invoked, model_calls,
                   run_active, reports, sink_failed, error, queue, out, runtime_error>>
    /\ UNCHANGED writes
    /\ UNCHANGED cvars

\* the graph run raised: once its events are read the exception leaves astream
\* and stream and reaches the handler of converse
Raise ==
    /\ conv = "running"
    /\ queue = <<>>
    /\ pc = "failed"
    /\ IF Caught(error)
       THEN /\ out' = Append(out, ErrorEvent)
            /\ conv' = "errored"
       ELSE /\ conv' = "raised"
            /\ UNCHANGED out
    /\ UNCHANGED <<state, pc, gen, response_text, tokens, chunks, invoked, model_calls,
                   run_active, reports, sink_failed, error, queue, runtime_error>>
    /\ UNCHANGED writes
    /\ UNCHANGED cvars

\* the consumer closes the output sequence: GeneratorExit is thrown into converse
\* at its yield, or the task iterating it is cancelled
Close ==
    /\ conv = "running"
    /\ \E exc \in {"GeneratorExit", "CancelledError"} :
         IF Caught(exc)
         THEN /\ out' = Append(out, ErrorEvent)
              /\ runtime_error' = TRUE
         ELSE UNCHANGED <<out, runtime_error>>
    /\ conv' = "closed"
    /\ UNCHANGED <<state, pc, gen, response_text, tokens, chunks, invoked, model_calls,
                   run_active, reports, sink_failed, error, queue>>
    /\ UNCHANGED writes
    /\ UNCHANGED cvars

\* after the close the graph run is cancelled at a later turn of the event loop
Abort ==
    /\ conv = "closed"
    /\ pc \in Nodes \cup {"start"}
    /\ pc' = "cancelled"
    /\ UNCHANGED <<state, gen, response_text, tokens, chunks, invoked, model_calls,
                   run_active, reports, sink_failed, error, queue, out, conv, runtime_error>>
    /\ UNCHANGED writes
    /\ UNCHANGED cvars

Next ==
    \/ Start
    \/ CheckContextFails
    \/ CheckContext
    \/ RetrieveRag
    \/ CannotAnswer
    \/ GenerateStart
    \/ GenerateChunk
    \/ GenerateFails
    \/ GenerateReturn
    \/ Deliver
    \/ Finish
    \/ Raise
    \/ Close
    \/ Abort

Spec == Init /\ [][Next]_vars

\* the event loop keeps running whatever is ready, and the model stream is finite
FairSpec == Spec /\ WF_vars(Next)

TypeOK ==
    /\ pc \in Nodes \cup {"start", END, NoEdge, "failed", "cancelled"}
    /\ gen \in {"idle", "streaming", "returned"}
    /\ conv \in {"running", "finished", "errored", "closed", "raised"}
    /\ Len(chunks) <= MaxChunks
    /\ run_active \in BOOLEAN

(***************************************************************************)
(* Properties                                                              *)
(***************************************************************************)
\* the text fragment carried by a `data: ...` event
Payload(ev) == SubSeq(ev, 7, Len(ev) - 2)

\* the texts of the chunks pulled so far, in stream order
ChunkTextsSoFar == [i \in 1..Len(chunks) |-> chunks[i].text]

\* the events the fragments of the chunks pulled so far are framed as
FragmentEvents ==
    LET frags == NonEmptyTexts(ChunkTextsSoFar)
    IN  [i \in 1..Len(frags) |-> SSE(frags[i])]

Has(key) == key \in DOMAIN state

RunOver == pc \in {END, NoEdge}

\* C1: when the workflow went through generate_answer and ended normally,
\* generate_answer_node ran exactly once and the concatenation of everything
\* the caller received equals the final answer.
ReconstructionLaw ==
    (conv = "finished" /\ pc = END) =>
        /\ Count(invoked, "generate_answer") = 1
        /\ Concat([i \in 1..Len(out) |-> Payload(out[i])]) = state["answer"]

\* C2: once check_context_node has set has_context = false, neither
\* retrieve_rag_node nor generate_answer_node is invoked and the final answer
\* is the fallback text.
NoContextFallback ==
    (Has("has_context") /\ ~state["has_context"]) =>
        /\ Count(invoked, "retrieve_rag") = 0
        /\ Count(invoked, "generate_answer") = 0
        /\ pc \notin {"retrieve_rag", "generate_answer", END}
        /\ RunOver => (Has("answer") /\ state["answer"] = FallbackText)

NoContextWitness ==
    /\ Has("has_context") /\ ~state["has_context"]
    /\ pc = NoEdge
    /\ conv = "finished"
    /\ out = <<SSE(FallbackText)>>

\* C3: with has_context = true and has_documents = false, generate_answer_node
\* is never invoked, the streaming call is never issued and the final answer
\* is the fallback text.
NoDocumentsFallback ==
    (Has("has_context") /\ state["has_context"]
        /\ Has("has_documents") /\ ~state["has_documents"]) =>
        /\ Count(invoked, "generate_answer") = 0
        /\ Count(model_calls, "stream") = 0
        /\ pc \notin {"generate_answer", END}
        /\ RunOver => (Has("answer") /\ state["answer"] = FallbackText)

NoDocumentsWitness ==
    /\ Has("has_context") /\ state["has_context"]
    /\ Has("has_documents") /\ ~state["has_documents"]
    /\ pc = NoEdge
    /\ conv = "finished"

\* C4: when the workflow fails, the caller has received the fragments written
\* before the failure, in order and unaltered, followed by exactly one error
\* event, which is the last event; an error event is emitted only on failure.
ErrorTerminates ==
    /\ conv = "errored" => out = FragmentEvents \o <<ErrorEvent>>
    /\ Count(out, ErrorEvent) <= 1
    /\ Count(out, ErrorEvent) = 1 =>
          /\ conv = "errored"
          /\ pc = "failed"
          /\ out[Len(out)] = ErrorEvent

ErrorTerminatesWitness ==
    /\ conv = "errored"
    /\ error = "ModelError"
    /\ gen = "streaming"
    /\ Len(out) = 3

\* C5: a failure while recording usage never aborts the workflow and never
\* makes the caller receive an error event.
UsageFailureSwallowed ==
    sink_failed =>
        /\ pc # "failed"
        /\ error = ""
        /\ Count(out, ErrorEvent) = 0

\* C6: with an active run, once the graph run is over or has failed, exactly
\* one usage report is recorded per model call issued, and every report has
\* non-negative counts with total = input + output.
OneReportPerModelCall ==
    /\ (run_active /\ pc \in {END, NoEdge, "failed"}) => Len(reports) = Len(model_calls)
    /\ \A i \in 1..Len(reports) :
          /\ reports[i].input_tokens >= 0
          /\ reports[i].output_tokens >= 0
          /\ reports[i].total_tokens = reports[i].input_tokens + reports[i].output_tokens

\* C7: from the step in which the consumer closes the output sequence on, no
\* output event is produced, and converse does not yield while being closed.
CloseStopsOutput ==
    /\ [][conv' = "closed" => out' = out]_vars
    /\ [](~runtime_error)

CloseWitness ==
    /\ conv = "closed"
    /\ pc = "generate_answer"
    /\ gen = "streaming"
    /\ Len(out) = 1
    /\ queue # <<>>
    /\ Len(chunks) = MaxChunks

\* C8: every run that neither fails nor is closed terminates; no node is
\* invoked twice; a finished run went through exactly one of generate_answer
\* (then END) and cannot_answer.
AcyclicOneTerminal ==
    /\ [](\A n \in Nodes : Count(invoked, n) <= 1)
    /\ [](pc = END => (Count(invoked, "generate_answer") = 1
                        /\ Count(invoked, "cannot_answer") = 0))
    /\ [](pc = NoEdge => (Count(invoked, "cannot_answer") = 1
                        /\ Count(invoked, "generate_answer") = 0))
    /\ <>(RunOver \/ error # "" \/ conv = "closed")

AcyclicWitness ==
    /\ pc = END
    /\ conv = "finished"
    /\ invoked = <<"check_context", "retrieve_rag", "generate_answer">>

\* C9: while generate_answer_node is streaming, the fragments of the chunks
\* pulled so far have each been appended to the accumulator and written as one
\* event, in stream order, `answer` is not yet set, a chunk without text adds
\* no event, and pulling a chunk never fails the run.
StreamForwarding ==
    /\ []((pc = "generate_answer" /\ gen = "streaming") =>
            /\ response_text = Concat(ChunkTextsSoFar)
            /\ ~Has("answer")
            /\ conv = "running" => out \o Converse(queue) = FragmentEvents)
    /\ [][chunks' # chunks => (pc' = "generate_answer" /\ error' = "")]_vars

StreamForwardingWitness ==
    /\ pc = "generate_answer"
    /\ gen = "streaming"
    /\ Len(chunks) = 2
    /\ ~Truthy(chunks[1].text)
    /\ Truthy(chunks[2].text)
    /\ Len(out) = 1

\* C10: the label a routing condition returns is one of its two declared
\* labels, has a target in the edge map, every target is a registered node,
\* and no run fails with a routing error.
RoutingTotal ==
    /\ error # "RoutingError"
    /\ \A l \in DOMAIN CheckContextEdges : CheckContextEdges[l] \in Nodes
    /\ \A l \in DOMAIN RetrieveRagEdges : RetrieveRagEdges[l] \in Nodes
    /\ Has("has_context") =>
          /\ check_context_condition(state) \in {"has_context", "no_context"}
          /\ check_context_condition(state) \in DOMAIN CheckContextEdges
    /\ Has("has_documents") =>
          /\ retrieve_rag_condition(state) \in {"has_documents", "no_documents"}
          /\ retrieve_rag_condition(state) \in DOMAIN RetrieveRagEdges

RoutingWitness ==
    /\ Has("has_documents")
    /\ ~state["has_documents"]
    /\ pc = "cannot_answer"

\* C12: once the consumer has closed the output sequence, no further chunk
\* is pulled from the model stream and generate_answer_node does not run on
\* to the end of the stream.
CancellationPropagates ==
    [][(conv = "closed" /\ gen = "streaming") => (chunks' = chunks /\ gen' = gen)]_vars

\* C13: each model call is issued at most once; when the single-shot call of
\* check_context_node fails no other node runs, the caller receives no
\* fragment, and once the failure has reached converse the output is exactly
\* one error event.
NoRetry ==
    /\ Count(model_calls, "single") <= 1
    /\ Count(model_calls, "stream") <= 1
    /\ (error = "ModelError" /\ model_calls = <<"single">>) =>
          /\ invoked = <<"check_context">>
          /\ pc = "failed"
          /\ out = IF conv = "errored" THEN <<ErrorEvent>> ELSE <<>>
          /\ conv \in {"running", "closed", "errored"}

NoRetryWitness ==
    /\ error = "ModelError"
    /\ model_calls = <<"single">>
    /\ conv = "errored"
    /\ out = <<ErrorEvent>>

\* the step is the invocation of the handler of `node`
Invokes(node) == invoked' = Append(invoked, node)

\* the step leaves every field of the state but `field` as it was
WritesOnly(field) ==
    /\ DOMAIN state' = DOMAIN state \cup {field}
    /\ \A k \in DOMAIN state \ {field} : state'[k] = state[k]

\* C15: retrieve_rag_node and cannot_answer_node issue no model call, record
\* no usage report and change no field but has_documents, answer; a run that
\* ended at cannot_answer issued the single-shot call only and recorded no
\* report but that of check_context_node.
FallbackNodesFrame ==
    /\ [][Invokes("retrieve_rag") =>
            (model_calls' = model_calls /\ reports' = reports /\ WritesOnly("has_documents"))]_vars
    /\ [][Invokes("cannot_answer") =>
            (model_calls' = model_calls /\ reports' = reports /\ WritesOnly("answer"))]_vars
    /\ [](pc = NoEdge =>
            /\ model_calls = <<"single">>
            /\ Len(reports) = IF run_active THEN 1 ELSE 0)

FallbackNodesWitness ==
    /\ pc = NoEdge
    /\ run_active
    /\ invoked = <<"check_context", "retrieve_rag", "cannot_answer">>
    /\ Len(reports) = 1

\* the custom events the scheduler holds for stream
PendingFragments == {i \in 1..Len(queue) : queue[i].mode = "custom"}

\* C16: at most one fragment is written but not yet delivered to the caller.
Backpressure ==
    conv = "running" => Cardinality(PendingFragments) <= 1

\* the prompt contains the key at some position, letter case aside
MatchesKey(prompt, key) ==
    \E i \in 0..(Len(prompt) - Len(key)) :
        \A j \in 1..Len(key) : LowerChar(prompt[i + j]) = key[j]

HasKey(prompt) ==
    \E key \in { <<"l","a","n","g","g","r","a","p","h">>,
                 <<"p","y","t","h","o","n">>,
                 <<"g","e","m","i","n","i">> } : MatchesKey(prompt, key)

\* C17: has_documents is true exactly when the prompt contains one of the
\* keys langgraph, python, gemini, letter case aside; with has_context true
\* and such a prompt the run goes to generate_answer and never to
\* cannot_answer.
RetrievalMatch ==
    /\ Has("has_documents") => (state["has_documents"] <=> HasKey(state["prompt"]))
    /\ (Has("has_context") /\ state["has_context"] /\ HasKey(state["prompt"])) =>
          /\ Count(invoked, "cannot_answer") = 0
          /\ pc \notin {"cannot_answer", NoEdge}
          /\ Has("has_documents") => (pc \in {"generate_answer", END, "failed", "cancelled"}
                                       /\ Count(invoked, "retrieve_rag") = 1)

RetrievalMatchWitness ==
    /\ state["prompt"] = <<"W","h","a","t"," ","i","s"," ","L","a","n","g","G","r","a","p","h","?">>
    /\ Has("has_documents")
    /\ state["has_documents"]
    /\ pc = "generate_answer"

\* the counts of the last chunk of chs that carried usage_metadata, else 0, 0
RECURSIVE LastUsage(_)
LastUsage(chs) ==
    IF chs = <<>> THEN <<0, 0>>
    ELSE IF chs[Len(chs)].usage_metadata # <<>> THEN chs[Len(chs)].usage_metadata
    ELSE LastUsage(SubSeq(chs, 1, Len(chs) - 1))

\* C18: the report of the streaming call is recorded only when the stream is
\* exhausted; its counts are those of the last chunk that carried usage
\* (0, 0, 0 if none did).
StreamUsageReport ==
    /\ (run_active /\ gen # "returned") => Len(reports) <= 1
    /\ (run_active /\ gen = "returned") =>
          /\ Len(reports) = 2
          /\ reports[2].input_tokens = LastUsage(chunks)[1]
          /\ reports[2].output_tokens = LastUsage(chunks)[2]
          /\ reports[2].total_tokens = LastUsage(chunks)[1] + LastUsage(chunks)[2]

StreamUsageWitness ==
    /\ run_active
    /\ gen = "returned"
    /\ Len(chunks) = 2
    /\ chunks[1].usage_metadata = <<5, 2>>
    /\ chunks[2].usage_metadata = <<0, 1>>

StreamUsageNoneWitness ==
    /\ run_active
    /\ gen = "returned"
    /\ \A i \in 1..Len(chunks) : chunks[i].usage_metadata = <<>>
    /\ reports[2].total_tokens = 0

\* C19: a run that ended at cannot_answer gives the caller exactly the event
\* of the fallback text; no data event has an empty payload, so a generation
\* without text gives no event at all.
NonEmptyEvents ==
    /\ (pc = NoEdge /\ conv = "finished") => out = <<SSE(FallbackText)>>
    /\ \A i \in 1..Len(out) : Payload(out[i]) # <<>>
    /\ (pc = END /\ conv = "finished" /\ state["answer"] = <<>>) => out = <<>>

NonEmptyEventsWitness ==
    /\ pc = END
    /\ conv = "finished"
    /\ state["answer"] = <<>>
    /\ Len(chunks) = MaxChunks
    /\ out = <<>>

\* the nodes whose updates wrote `field`, one entry per write
WritersOf(field) ==
    LET idx == {i \in 1..Len(writes) : field \in writes[i].fields}
    IN  [node \in Nodes |-> Cardinality({i \in idx : writes[i].node = node})]

TimesWritten(field) == Cardinality({i \in 1..Len(writes) : field \in writes[i].fields})

\* C14: along a run every field is written at most once; answer is written
\* by generate_answer_node or cannot_answer_node (exactly once in a finished
\* run), has_context by check_context_node only, has_documents by
\* retrieve_rag_node only, and prompt is never written or changed.
SingleWriter ==
    /\ [](\A f \in {"prompt", "answer", "has_context", "has_documents"} : TimesWritten(f) <= 1)
    /\ [](TimesWritten("answer") =
            WritersOf("answer")["generate_answer"] + WritersOf("answer")["cannot_answer"])
    /\ [](RunOver => TimesWritten("answer") = 1)
    /\ [](TimesWritten("has_context") = WritersOf("has_context")["check_context"])
    /\ [](TimesWritten("has_documents") = WritersOf("has_documents")["retrieve_rag"])
    /\ [](TimesWritten("prompt") = 0)
    /\ [][state'["prompt"] = state["prompt"]]_vars

SingleWriterWitness ==
    /\ pc = END
    /\ Len(writes) = 3
    /\ WritersOf("answer")["generate_answer"] = 1
    /\ WritersOf("has_context")["check_context"] = 1
    /\ WritersOf("has_documents")["retrieve_rag"] = 1

(***************************************************************************)
(* Concurrent requests against the one AgentWorkFlow of app.state          *)
(* (routes/conversation.py: every request makes its own ConversationService*)
(* around the shared agent_workflow).  Usage recording and the close of    *)
(* the consumer are left to the single-request specification.              *)
(***************************************************************************)
Requests == {"a", "b"}

\* request messages: "PYTHON", ""
ConcPrompts == { <<"P","Y","T","H","O","N">>, <<>> }

\* response.text of the single-shot call: "YES", "NO"
ConcResponses == { <<"Y","E","S">>, <<"N","O">> }

ConcChunks == [text : ChunkTexts, usage_metadata : { <<>> }]

\* variant: response_text kept on the shared AgentWorkFlow instance
FrameShared(r) == "a"

\* generate_answer_node: response_text is a local of the invocation
Frame(r) == r

\* astream(input={"prompt": prompt}): the state and positions of a new request
NewRequest(p) ==
    [state |-> [prompt |-> p], pc |-> "start", gen |-> "idle", chunks |-> <<>>,
     queue |-> <<>>, out |-> <<>>, conv |-> "running", error |-> ""]

\* the request q after `node` returned `update`
Returned(q, node, update, started) ==
    LET st   == Merge(q.state, update)
        next == IF node = "cannot_answer" THEN NoEdge ELSE NextNode(node, st)
    IN  [q EXCEPT !.state = st,
                  !.pc    = IF next = "routing_error" THEN "failed" ELSE next,
                  !.error = IF next = "routing_error" THEN "RoutingError" ELSE @,
                  !.queue = @ \o started \o NodeReturned(node, update, st)]

\* the request q after `node` raised
Failed(q, node, started) ==
    [q EXCEPT !.pc = "failed", !.error = "ModelError",
              !.queue = @ \o started \o NodeRaised(node, "ModelError")]

ConcInit ==
    /\ req \in [Requests -> {NewRequest(p) : p \in ConcPrompts}]
    /\ acc = [r \in Requests |-> <<>>]
    /\ state = [prompt |-> <<>>]
    /\ pc = "start"
    /\ gen = "idle"
    /\ response_text = <<>>
    /\ tokens = <<0, 0>>
    /\ chunks = <<>>
    /\ invoked = <<>>
    /\ model_calls = <<>>
    /\ run_active = FALSE
    /\ reports = <<>>
    /\ sink_failed = FALSE
    /\ error = ""
    /\ queue = <<>>
    /\ out = <<>>
    /\ conv = "running"
    /\ runtime_error = FALSE
    /\ writes = <<>>

ConcStart(r) ==
    /\ req[r].pc = "start"
    /\ req[r].conv = "running"
    /\ req' = [req EXCEPT ![r] = [@ EXCEPT !.pc = EntryPoint,
                                          !.queue = Append(@, Event("values", req[r].state))]]
    /\ UNCHANGED <<acc, svars>>

ConcCheckContextFails(r) ==
    /\ req[r].pc = "check_context"
    /\ req[r].conv = "running"
    /\ req' = [req EXCEPT ![r] = Failed(@, "check_context", TaskStarted("check_context"))]
    /\ UNCHANGED <<acc, svars>>

ConcCheckContext(r) ==
    /\ req[r].pc = "check_context"
    /\ req[r].conv = "running"
    /\ \E text \in ConcResponses :
         req' = [req EXCEPT ![r] = Returned(@, "check_context", CheckContextUpdate(text),
                                            TaskStarted("check_context"))]
    /\ UNCHANGED <<acc, svars>>

ConcRetrieveRag(r) ==
    /\ req[r].pc = "retrieve_rag"
    /\ req[r].conv = "running"
    /\ req' = [req EXCEPT ![r] = Returned(@, "retrieve_rag", RetrieveRagUpdate(req[r].state),
                                          TaskStarted("retrieve_rag"))]
    /\ UNCHANGED <<acc, svars>>

ConcCannotAnswer(r) ==
    /\ req[r].pc = "cannot_answer"
    /\ req[r].conv = "running"
    /\ req' = [req EXCEPT ![r] = Returned(@, "cannot_answer", CannotAnswerUpdate,
                                          TaskStarted("cannot_answer"))]
    /\ UNCHANGED <<acc, svars>>

ConcGenerateStart(r) ==
    /\ req[r].pc = "generate_answer"
    /\ req[r].gen = "idle"
    /\ req[r].conv = "running"
    /\ acc' = [acc EXCEPT ![Frame(r)] = <<>>]
    /\ req' = [req EXCEPT ![r] = [@ EXCEPT !.gen = "streaming",
                                          !.queue = @ \o TaskStarted("generate_answer")]]
    /\ UNCHANGED svars

ConcGenerateChunk(r) ==
    /\ req[r].pc = "generate_answer"
    /\ req[r].gen = "streaming"
    /\ Len(req[r].chunks) < MaxChunks
    /\ \E chunk \in ConcChunks :
         IF Truthy(chunk.text)
         THEN /\ acc' = [acc EXCEPT ![Frame(r)] = Accumulate(@, chunk.text)]
              /\ req' = [req EXCEPT ![r] =
                    [@ EXCEPT !.chunks = Append(@, chunk),
                              !.queue = Append(@, Event("custom",
                                               WriterPayload(chunk, acc[Frame(r)])))]]
         ELSE /\ req' = [req EXCEPT ![r] = [@ EXCEPT !.chunks = Append(@, chunk)]]
              /\ UNCHANGED acc
    /\ UNCHANGED svars

ConcGenerateFails(r) ==
    /\ req[r].pc = "generate_answer"
    /\ req[r].gen = "streaming"
    /\ req' = [req EXCEPT ![r] = Failed(@, "generate_answer", <<>>)]
    /\ UNCHANGED <<acc, svars>>

ConcGenerateReturn(r) ==
    /\ req[r].pc = "generate_answer"
    /\ req[r].gen = "streaming"
    /\ req' = [req EXCEPT ![r] =
          [Returned(@, "generate_answer", [answer |-> acc[Frame(r)]], <<>>)
              EXCEPT !.gen = "returned"]]
    /\ UNCHANGED <<acc, svars>>

ConcDeliver(r) ==
    /\ req[r].conv = "running"
    /\ req[r].queue # <<>>
    /\ req' = [req EXCEPT ![r] = [@ EXCEPT !.queue = Tail(@),
                                          !.out = @ \o Converse(<<Head(req[r].queue)>>)]]
    /\ UNCHANGED <<acc, svars>>

ConcFinish(r) ==
    /\ req[r].conv = "running"
    /\ req[r].queue = <<>>
    /\ req[r].pc \in {END, NoEdge}
    /\ req' = [req EXCEPT ![r] = [@ EXCEPT !.conv = "finished"]]
    /\ UNCHANGED <<acc, svars>>

ConcRaise(r) ==
    /\ req[r].conv = "running"
    /\ req[r].queue = <<>>
    /\ req[r].pc = "failed"
    /\ req' = [req EXCEPT ![r] =
          IF Caught(req[r].error)
          THEN [@ EXCEPT !.out = Append(@, ErrorEvent), !.conv = "errored"]
          ELSE [@ EXCEPT !.conv = "raised"]]
    /\ UNCHANGED <<acc, svars>>

ConcNext ==
    \/ \E r \in Requests : ConcStart(r)
    \/ \E r \in Requests : ConcCheckContextFails(r)
    \/ \E r \in Requests : ConcCheckContext(r)
    \/ \E r \in Requests : ConcRetrieveRag(r)
    \/ \E r \in Requests : ConcCannotAnswer(r)
    \/ \E r \in Requests : ConcGenerateStart(r)
    \/ \E r \in Requests : ConcGenerateChunk(r)
    \/ \E r \in Requests : ConcGenerateFails(r)
    \/ \E r \in Requests : ConcGenerateReturn(r)
    \/ \E r \in Requests : ConcDeliver(r)
    \/ \E r \in Requests : ConcFinish(r)
    \/ \E r \in Requests : ConcRaise(r)

ConcSpec == ConcInit /\ [][ConcNext]_vars

\* the events framed from the fragments of the chunks chs
FragmentEventsOf(chs) ==
    LET frags == NonEmptyTexts([i \in 1..Len(chs) |-> chs[i].text])
    IN  [i \in 1..Len(frags) |-> SSE(frags[i])]

\* what a request produces when it runs alone: as a function of its model
\* responses only (the chunks pulled) and of how far it got
AloneOutput(pos, chs, cv) ==
    LET whole == Concat([i \in 1..Len(chs) |-> chs[i].text])
        body  == CASE pos = END    -> FragmentEventsOf(chs) \o
                                      (IF Truthy(whole) THEN <<SSE(whole)>> ELSE <<>>)
                   [] pos = NoEdge -> <<SSE(FallbackText)>>
                   [] OTHER        -> FragmentEventsOf(chs)
    IN  body \o (IF cv = "errored" THEN <<ErrorEvent>> ELSE <<>>)

\* the request followed alone produces AloneOutput
AloneReference ==
    conv # "closed" => out \o Converse(queue) = AloneOutput(pc, chunks, conv)

\* C11: with two requests interleaved at every step and chunk, the events
\* each caller has received or is about to receive are those of the request
\* run alone with the same model responses, and the answer of a request is
\* made of its own chunks only.
RequestsIndependent ==
    \A r \in Requests :
        /\ req[r].out \o Converse(req[r].queue)
              = AloneOutput(req[r].pc, req[r].chunks, req[r].conv)
        /\ "answer" \in DOMAIN req[r].state /\ req[r].pc = END =>
              req[r].state["answer"] = Concat([i \in 1..Len(req[r].chunks) |-> req[r].chunks[i].text])

RequestsIndependentWitness ==
    /\ req["a"].gen = "streaming"
    /\ req["b"].gen = "returned"
    /\ req["b"].conv = "finished"
    /\ Len(req["a"].chunks) = MaxChunks
    /\ Len(req["b"].chunks) = MaxChunks
    /\ Truthy(req["a"].state["prompt"])
    /\ \A i \in 1..MaxChunks : /\ Truthy(req["a"].chunks[i].text)
                               /\ Truthy(req["b"].chunks[i].text)
                               /\ req["a"].chunks[i].text # req["b"].chunks[i].text
    /\ Len(req["a"].out) >= 1

====
